---- MODULE Spec2Model ----
(***************************************************************************)
(* Model of internal/wasm (AddStartSection, StripStartSection and their    *)
(* helpers): a WebAssembly module is a sequence of bytes (0..255); a       *)
(* uint32 is the record [lo, hi] of its low 28 bits and its high 4 bits,   *)
(* so that the arithmetic of readU32 and writeU32 is exact modulo 2^32.    *)
(***************************************************************************)
EXTENDS Integers, Sequences, FiniteSets, TLC

\* ------------------------------------------------------------------------
\* Bounds of the model.
\* ------------------------------------------------------------------------
\* longest sequence of sections after a valid header
MaxSecs == 3
\* longest sequence of sections after a short or invalid header
MaxBadHdrSecs == 1
\* longest byte string handed to readU32 on its own
MaxLebLen == 6
\* every value up to this one is handed to writeU32, besides the samples
MaxSmall == 300
\* most export entries in a body handed to scanExportsForInitialize on its own
MaxExports == 2

\* ------------------------------------------------------------------------
\* Program constants.
\* ------------------------------------------------------------------------
wasmHeaderSize == 8
wasmSectionIDExport == 7
wasmSectionIDStart == 8
wasmExportKindFunction == 0
wasmVersion == 1
leb128ValueMask == 127
leb128ContinueMask == 128
leb128MaxBytesU32 == 5
wasmMagic == <<0, 97, 115, 109>>
\* the string literal "_initialize" as bytes
InitializeName == <<95, 105, 110, 105, 116, 105, 97, 108, 105, 122, 101>>

\* ------------------------------------------------------------------------
\* Go slices and uint32 values.
\* ------------------------------------------------------------------------
\* b[from:to] with 0-based offsets
Slice(b, from, to) == SubSeq(b, from + 1, to)

\* uint32(n) for 0 <= n < 2^28
U32(n) == [lo |-> n, hi |-> 0]

\* int(x) on a 64-bit int: exact below 2^28; a value of 2^28 or more is only
\* ever compared with buffer lengths, all far below 2^28
toInt(x) == IF x.hi = 0 THEN x.lo ELSE 268435456

\* x | uint32(v) << (7*i) for a 7-bit v, when x has no bit at or above 7*i;
\* the shift by 28 keeps the low 4 bits of v and drops the rest
OrShifted(x, v, i) ==
    IF i < 4 THEN [lo |-> x.lo + v * (128 ^ i), hi |-> x.hi]
    ELSE [lo |-> x.lo, hi |-> v % 16]

\* variant: the shift loses the four high bits
Shr7Low(x) == [lo |-> x.lo \div 128, hi |-> 0]

\* x >> 7
Shr7(x) == [lo |-> (x.lo \div 128) + x.hi * 2097152, hi |-> 0]

\* ------------------------------------------------------------------------
\* LEB128 codec.
\* ------------------------------------------------------------------------
RECURSIVE readU32Loop(_, _, _)
readU32Loop(b, i, x) ==
    IF i < Len(b) /\ i < leb128MaxBytesU32
    THEN LET c == b[i + 1]
             x1 == OrShifted(x, c % (leb128ValueMask + 1), i)
         IN IF (c \div leb128ContinueMask) % 2 = 0
            THEN [val |-> x1, n |-> i + 1]
            ELSE readU32Loop(b, i + 1, x1)
    ELSE [val |-> U32(0), n |-> 0]

\* variant: at most four bytes are read
readU32Four(b) == readU32Loop(IF Len(b) > 4 THEN SubSeq(b, 1, 4) ELSE b, 0, U32(0))

\* variant: a fifth byte with bits beyond bit 31 is rejected
readU32Strict(b) ==
    LET r == readU32Loop(b, 0, U32(0))
    IN IF r.n = leb128MaxBytesU32 /\ b[leb128MaxBytesU32] > 15
       THEN [val |-> U32(0), n |-> 0] ELSE r

readU32(b) == readU32Loop(b, 0, U32(0))

\* variant: the continuation bit is decided before the shift
RECURSIVE writeU32Padded(_)
writeU32Padded(x) ==
    LET c == x.lo % (leb128ValueMask + 1)
        x1 == Shr7(x)
    IN IF x # U32(0)
       THEN <<c + leb128ContinueMask>> \o writeU32Padded(x1)
       ELSE <<c>>

RECURSIVE writeU32(_)
writeU32(x) ==
    LET c == x.lo % (leb128ValueMask + 1)
        x1 == Shr7(x)
    IN IF x1 # U32(0)
       THEN <<c + leb128ContinueMask>> \o writeU32(x1)
       ELSE <<c>>

readName(b) ==
    LET r == readU32(b)
    IN IF r.n = 0 THEN [name |-> <<>>, n |-> 0]
       ELSE IF toInt(r.val) + r.n > Len(b) THEN [name |-> <<>>, n |-> 0]
       ELSE [name |-> Slice(b, r.n, r.n + toInt(r.val)), n |-> r.n + toInt(r.val)]

\* ------------------------------------------------------------------------
\* Header check and module reader.
\* ------------------------------------------------------------------------
\* binary.LittleEndian.Uint32 of four bytes
LittleEndianUint32(b) ==
    [lo |-> b[1] + 256 * b[2] + 65536 * b[3] + 16777216 * (b[4] % 16),
     hi |-> b[4] \div 16]

\* variant: the version field is not checked
ensureMagicNoVersion(b) ==
    IF Len(b) < wasmHeaderSize THEN "file too small"
    ELSE IF Slice(b, 0, 4) # wasmMagic THEN "bad wasm magic"
    ELSE ""

ensureMagic(b) ==
    IF Len(b) < wasmHeaderSize THEN "file too small"
    ELSE IF Slice(b, 0, 4) # wasmMagic THEN "bad wasm magic"
    ELSE IF LittleEndianUint32(Slice(b, 4, wasmHeaderSize)) # U32(wasmVersion)
         THEN "unsupported wasm version"
    ELSE ""

RECURSIVE parseSectionsLoop(_, _, _)
parseSectionsLoop(b, off, secs) ==
    IF off < Len(b)
    THEN IF off >= Len(b)
         THEN [secs |-> <<>>, err |-> "truncated section id"]
         ELSE LET id == b[off + 1]
                  off1 == off + 1
                  r == readU32(Slice(b, off1, Len(b)))
                  off2 == off1 + r.n
                  size == toInt(r.val)
              IN IF r.n = 0
                 THEN [secs |-> <<>>, err |-> "invalid section size"]
                 ELSE IF off2 + size > Len(b)
                 THEN [secs |-> <<>>, err |-> "section exceeds file"]
                 ELSE parseSectionsLoop(b, off2 + size,
                         Append(secs, [id |-> id, body |-> Slice(b, off2, off2 + size)]))
    ELSE [secs |-> secs, err |-> ""]

\* variant: a structural failure is not reported
parseSectionsIgnoringError(b) == [secs |-> parseSectionsLoop(b, 0, <<>>).secs, err |-> ""]

\* variant: the last record is lost
parseSectionsDropLast(b) ==
    LET p == parseSectionsLoop(b, 0, <<>>)
    IN [secs |-> SubSeq(p.secs, 1, Len(p.secs) - 1), err |-> p.err]

\* variant: an undecodable size is reported as a truncated section id
parseSectionsTruncatedId(b) ==
    LET p == parseSectionsLoop(b, 0, <<>>)
    IN IF p.err = "invalid section size"
       THEN [p EXCEPT !.err = "truncated section id"] ELSE p

parseSections(b) == parseSectionsLoop(b, 0, <<>>)

\* ------------------------------------------------------------------------
\* Export scanner.
\* ------------------------------------------------------------------------
\* i < count for a loop counter i below 2^28
LtCount(i, count) == count.hi > 0 \/ i < count.lo

\* variant: the name is compared without regard to the case of its first letter
isInitializeExportAnyCase(kind, name) ==
    /\ kind = wasmExportKindFunction
    /\ name \in {InitializeName, <<95, 73, 110, 105, 116, 105, 97, 108, 105, 122, 101>>}

\* variant: the export kind is not looked at
isInitializeExportAnyKind(kind, name) == name = InitializeName

\* the match test of scanExportsForInitialize
isInitializeExport(kind, name) == kind = wasmExportKindFunction /\ name = InitializeName

RECURSIVE scanExportsLoop(_, _, _, _)
scanExportsLoop(b, off, i, count) ==
    IF LtCount(i, count)
    THEN LET nm == readName(Slice(b, off, Len(b)))
             off1 == off + nm.n
             kind == b[off1 + 1]
             off2 == off1 + 1
             r == readU32(Slice(b, off2, Len(b)))
             off3 == off2 + r.n
         IN IF nm.n = 0
            THEN [idx |-> U32(0), found |-> FALSE, err |-> "bad export name"]
            ELSE IF off1 >= Len(b)
            THEN [idx |-> U32(0), found |-> FALSE, err |-> "truncated export kind"]
            ELSE IF r.n = 0
            THEN [idx |-> U32(0), found |-> FALSE, err |-> "bad export index"]
            ELSE IF isInitializeExport(kind, nm.name)
            THEN [idx |-> r.val, found |-> TRUE, err |-> ""]
            ELSE scanExportsLoop(b, off3, i + 1, count)
    ELSE [idx |-> U32(0), found |-> FALSE, err |-> ""]

\* variant: an undecodable count is taken for a count of zero
scanExportsNoCountCheck(b) == scanExportsLoop(b, readU32(b).n, 0, readU32(b).val)

scanExportsForInitialize(b) ==
    LET r == readU32(b)
    IN IF r.n = 0
       THEN [idx |-> U32(0), found |-> FALSE, err |-> "bad export count"]
       ELSE scanExportsLoop(b, r.n, 0, r.val)

RECURSIVE findInitializeLoop(_, _)
findInitializeLoop(secs, k) ==
    IF k > Len(secs)
    THEN [idx |-> U32(0), err |-> "export _initialize not found"]
    ELSE IF secs[k].id # wasmSectionIDExport
    THEN findInitializeLoop(secs, k + 1)
    ELSE LET s == scanExportsForInitialize(secs[k].body)
         IN IF s.err # "" THEN [idx |-> U32(0), err |-> s.err]
            ELSE IF s.found THEN [idx |-> s.idx, err |-> ""]
            ELSE findInitializeLoop(secs, k + 1)

\* variant: only the first export section is scanned
findInitializeIndexFirstOnly(secs) ==
    LET E == {k \in 1..Len(secs) : secs[k].id = wasmSectionIDExport}
        first == CHOOSE k \in E : \A j \in E : k <= j
        s == scanExportsForInitialize(secs[first].body)
    IN IF E = {} THEN [idx |-> U32(0), err |-> "export _initialize not found"]
       ELSE IF s.err # "" THEN [idx |-> U32(0), err |-> s.err]
       ELSE IF s.found THEN [idx |-> s.idx, err |-> ""]
       ELSE [idx |-> U32(0), err |-> "export _initialize not found"]

findInitializeIndex(secs) == findInitializeLoop(secs, 1)

\* ------------------------------------------------------------------------
\* Section editor and module writer.
\* ------------------------------------------------------------------------
IsNotStart(s) == s.id # wasmSectionIDStart

\* variant: existing start sections are kept
dropStartSectionKeepsAll(secs) == secs

\* variant: custom sections are dropped as well
IsNotStartNorCustom(s) == s.id # wasmSectionIDStart /\ s.id # 0
dropStartSectionAndCustom(secs) == SelectSeq(secs, IsNotStartNorCustom)

dropStartSection(secs) == SelectSeq(secs, IsNotStart)

\* variant: the new section is given the id of the element section
buildStartSectionWrongId(fnIndex) == [id |-> 9, body |-> writeU32(fnIndex)]

buildStartSection(fnIndex) == [id |-> wasmSectionIDStart, body |-> writeU32(fnIndex)]

\* variant: the scan stops at the export section
RECURSIVE insertionPointBeforeExport(_, _)
insertionPointBeforeExport(secs, i) ==
    IF i < Len(secs) /\ secs[i + 1].id < wasmSectionIDExport
    THEN insertionPointBeforeExport(secs, i + 1)
    ELSE i

\* variant: the scan does not advance
insertionPointFront(secs, i) == i

\* the index at which the scan of insertStartSection stops
RECURSIVE insertionPoint(_, _)
insertionPoint(secs, i) ==
    IF i < Len(secs) /\ secs[i + 1].id <= wasmSectionIDStart
    THEN insertionPoint(secs, i + 1)
    ELSE i

\* variant: the element is inserted one place too early
slicesInsertBefore(s, i, v) ==
    LET k == IF i > 0 THEN i - 1 ELSE 0
    IN Slice(s, 0, k) \o <<v>> \o Slice(s, k, Len(s))

\* slices.Insert(s, i, v)
slicesInsert(s, i, v) == Slice(s, 0, i) \o <<v>> \o Slice(s, i, Len(s))

\* variant: the start section is appended
insertStartSectionAtEnd(secs, start) == Append(secs, start)

insertStartSection(secs, start) == slicesInsert(secs, insertionPoint(secs, 0), start)

\* variant: the size field is written before the id
RECURSIVE writeSectionsSizeFirst(_, _)
writeSectionsSizeFirst(secs, k) ==
    IF k > Len(secs) THEN <<>>
    ELSE writeU32(U32(Len(secs[k].body))) \o <<secs[k].id>> \o secs[k].body
         \o writeSectionsSizeFirst(secs, k + 1)

RECURSIVE writeSections(_, _)
writeSections(secs, k) ==
    IF k > Len(secs) THEN <<>>
    ELSE <<secs[k].id>> \o writeU32(U32(Len(secs[k].body))) \o secs[k].body
         \o writeSections(secs, k + 1)

rebuildModule(header, secs) == header \o writeSections(secs, 1)

\* ------------------------------------------------------------------------
\* The two exported operations.
\* ------------------------------------------------------------------------
\* [out, err]: err = "" is a nil error, and out = <<>> with err # "" a nil buffer
AddStartSection(data) ==
    LET e == ensureMagic(data)
        p == parseSections(Slice(data, wasmHeaderSize, Len(data)))
        f == findInitializeIndex(p.secs)
        secs1 == dropStartSection(p.secs)
        start == buildStartSection(f.idx)
        secs2 == insertStartSection(secs1, start)
    IN IF e # "" THEN [out |-> <<>>, err |-> e]
       ELSE IF p.err # "" THEN [out |-> <<>>, err |-> p.err]
       ELSE IF f.err # "" THEN [out |-> <<>>, err |-> f.err]
       ELSE [out |-> rebuildModule(Slice(data, 0, wasmHeaderSize), secs2), err |-> ""]

\* variant: the partial output is returned on a structural failure
stripFailurePartial(orig, out) == out

\* what StripStartSection returns on a structural failure: the input buffer b,
\* not the partial output
stripFailure(orig, out) == orig

\* StripStartSection re-emits a record exactly when its id is not the start id
\* variant: the wrong section id is compared
stripKeepsNotExport(id) == id # wasmSectionIDExport

stripKeeps(id) == id # wasmSectionIDStart

\* the loop of StripStartSection; orig is the buffer returned on a failure
RECURSIVE stripLoop(_, _, _, _)
stripLoop(orig, rest, off, out) ==
    IF off < Len(rest)
    THEN LET id == rest[off + 1]
             off1 == off + 1
             r == readU32(Slice(rest, off1, Len(rest)))
             size == toInt(r.val)
             bodyStart == off1 + r.n
             bodyEnd == bodyStart + size
         IN IF r.n = 0 \/ off1 + r.n + size > Len(rest)
            THEN stripFailure(orig, out)
            ELSE IF stripKeeps(id)
            THEN stripLoop(orig, rest, bodyEnd,
                     out \o <<id>> \o writeU32(r.val) \o Slice(rest, bodyStart, bodyEnd))
            ELSE stripLoop(orig, rest, bodyEnd, out)
    ELSE out

\* variant: the header is not copied to the output
StripStartSectionNoHeader(b) ==
    IF Len(b) < wasmHeaderSize THEN b
    ELSE stripLoop(b, Slice(b, wasmHeaderSize, Len(b)), 0, <<>>)

\* variant: a buffer with a bad header is returned as it is
StripStartSectionChecked(b) ==
    IF Len(b) < wasmHeaderSize \/ ensureMagic(b) # "" THEN b
    ELSE stripLoop(b, Slice(b, wasmHeaderSize, Len(b)), 0, Slice(b, 0, wasmHeaderSize))

StripStartSection(b) ==
    IF Len(b) < wasmHeaderSize THEN b
    ELSE stripLoop(b, Slice(b, wasmHeaderSize, Len(b)), 0, Slice(b, 0, wasmHeaderSize))

\* ------------------------------------------------------------------------
\* Input modules.  An input is written down as a header, a sequence of
\* section records and trailing bytes; each record carries the bytes of its
\* id, size field and body together with what is known of it by
\* construction: form ("ok", "badsize": the size field cannot be decoded
\* whatever follows, "overrun": the declared size exceeds every buffer of the
\* model), minimal (the size field is the shortest LEB128 of the body
\* length), exports (the export entries an export body was built from) and
\* decodes (all declared export entries are well formed).
\* ------------------------------------------------------------------------
GoodHeader == <<0, 97, 115, 109, 1, 0, 0, 0>>

BadHeaders ==
    { <<>>,
      <<0, 97, 115, 109>>,
      <<0, 97, 115, 109, 1, 0, 0>>,
      <<0, 97, 115, 110, 1, 0, 0, 0>>,
      <<0, 97, 115, 109, 2, 0, 0, 0>>,
      <<0, 97, 115, 109, 1, 0, 0, 16>> }

\* "_Initialize"
InitializeUpper == <<95, 73, 110, 105, 116, 105, 97, 108, 105, 122, 101>>

\* an export entry: idxEnc are the bytes of its index as written, idx the index
\* and idxMin the shortest LEB128 encoding of the index
Export(name, kind, idxEnc, idx, idxMin) ==
    [name |-> name, kind |-> kind, idxEnc |-> idxEnc, idx |-> idx, idxMin |-> idxMin]

RECURSIVE ExportEntries(_, _)
ExportEntries(exps, k) ==
    IF k > Len(exps) THEN <<>>
    ELSE <<Len(exps[k].name)>> \o exps[k].name \o <<exps[k].kind>> \o exps[k].idxEnc
         \o ExportEntries(exps, k + 1)

\* an export section built from fewer than 128 entries, its body shorter than 128
ExportSec(exps) ==
    LET body == <<Len(exps)>> \o ExportEntries(exps, 1)
    IN [id |-> 7, sz |-> <<Len(body)>>, body |-> body, form |-> "ok",
        minimal |-> TRUE, exports |-> exps, decodes |-> TRUE]

PlainSec(id, sz, body, form, minimal) ==
    [id |-> id, sz |-> sz, body |-> body, form |-> form,
     minimal |-> minimal, exports |-> <<>>, decodes |-> TRUE]

CustomSec == PlainSec(0, <<2>>, <<1, 120>>, "ok", TRUE)
TypeSec == PlainSec(1, <<1>>, <<0>>, "ok", TRUE)
\* size 1 written in two bytes
PaddedTypeSec == PlainSec(1, <<129, 0>>, <<0>>, "ok", FALSE)
StartSec == PlainSec(8, <<1>>, <<7>>, "ok", TRUE)
\* a body of 130 bytes, whose length takes two bytes: 0x82 0x01
LongBody == [i \in 1..130 |-> i % 7]
CodeSec == PlainSec(10, <<130, 1>>, LongBody, "ok", TRUE)
\* a continuation chain of five bytes
BadSizeSec == PlainSec(1, <<255, 255, 255, 255, 255>>, <<>>, "badsize", FALSE)
\* declared size 2^31 - 1
OverrunSec == PlainSec(1, <<255, 255, 255, 255, 7>>, <<0>>, "overrun", TRUE)
\* an export section whose only entry declares a name longer than the body
BadExportSec ==
    [id |-> 7, sz |-> <<3>>, body |-> <<1, 5, 95>>, form |-> "ok",
     minimal |-> TRUE, exports |-> <<>>, decodes |-> FALSE]

\* `_initialize` is function 3, the index written in two bytes
InitExportSec == ExportSec(<<Export(InitializeName, 0, <<131, 0>>, U32(3), <<3>>)>>)
\* `_initialize` exported as a memory, `_Initialize` as a function
NoInitExportSec ==
    ExportSec(<<Export(InitializeName, 2, <<0>>, U32(0), <<0>>),
                Export(InitializeUpper, 0, <<5>>, U32(5), <<5>>)>>)
\* two function exports named `_initialize`: index 200, then index 9
TwoInitExportSec ==
    ExportSec(<<Export(InitializeName, 0, <<200, 1>>, U32(200), <<200, 1>>),
                Export(InitializeName, 0, <<137, 0>>, U32(9), <<9>>)>>)

SecInputs ==
    { CustomSec, TypeSec, PaddedTypeSec, StartSec, CodeSec, BadSizeSec, OverrunSec,
      BadExportSec, InitExportSec, NoInitExportSec, TwoInitExportSec }

\* trailing bytes: none, a section id alone, a section cut inside its body
Tails == { <<>>, <<1>>, <<1, 2, 0>> }

SeqsUpTo(S, n) == UNION { [1..k -> S] : k \in 0..n }

Inputs ==
    { [hdr |-> GoodHeader, secs |-> ss, tail |-> t] :
        ss \in SeqsUpTo(SecInputs, MaxSecs), t \in Tails }
    \cup
    { [hdr |-> h, secs |-> ss, tail |-> t] :
        h \in BadHeaders, ss \in SeqsUpTo(SecInputs, MaxBadHdrSecs), t \in Tails }

SecBytes(c) == <<c.id>> \o c.sz \o c.body

RECURSIVE SecsBytes(_, _)
SecsBytes(ss, k) ==
    IF k > Len(ss) THEN <<>> ELSE SecBytes(ss[k]) \o SecsBytes(ss, k + 1)

Bytes(in) == in.hdr \o SecsBytes(in.secs, 1) \o in.tail

\* ------------------------------------------------------------------------
\* State: the input as written down (m) and as bytes (data), the position
\* of the call (pc), the locals of AddStartSection (secs, fnIndex, start),
\* the result of the first call (out, err) and of a second call made on
\* that result (res2).
\* ------------------------------------------------------------------------
VARIABLES m, data, pc, secs, fnIndex, start, out, err, res2, codec, scan, mem, cli, plug

vars == <<m, data, pc, secs, fnIndex, start, out, err, res2, codec, scan, mem, cli, plug>>

NoSection == [id |-> 0, body |-> <<>>]
NoResult == [out |-> <<>>, err |-> ""]
\* no call of the codec or of the export scanner on its own is in progress
NoCodec == [pc |-> "none", x |-> U32(0), bytes |-> <<>>, res |-> [val |-> U32(0), n |-> 0]]
NoScan ==
    [pc |-> "none", entries |-> <<>>, count |-> 0, body |-> <<>>,
     res |-> [idx |-> U32(0), found |-> FALSE, err |-> ""]]
\* no call on a caller's buffer is in progress, the standalone tool is not
\* running, the formatter plugin is not loaded
NoMem == [pc |-> "none"]
NoCli == [pc |-> "none"]
NoPlug == [pc |-> "none"]

Init ==
    /\ m \in Inputs
    /\ data = Bytes(m)
    /\ pc = "idle"
    /\ secs = <<>>
    /\ fnIndex = U32(0)
    /\ start = NoSection
    /\ out = <<>>
    /\ err = ""
    /\ res2 = NoResult
    /\ codec = NoCodec
    /\ scan = NoScan
    /\ mem = NoMem
    /\ cli = NoCli
    /\ plug = NoPlug

\* AddStartSection, stage by stage; a failing stage returns (nil, err)
Fail(e) ==
    /\ pc' = "failed"
    /\ err' = e
    /\ out' = <<>>

ValidateHeader ==
    /\ pc = "idle"
    /\ LET e == ensureMagic(data)
       IN IF e # "" THEN Fail(e)
          ELSE pc' = "ParseSections" /\ UNCHANGED <<out, err>>
    /\ UNCHANGED <<codec, scan, mem, cli, plug, m, data, secs, fnIndex, start, res2>>

ParseSections ==
    /\ pc = "ParseSections"
    /\ LET p == parseSections(Slice(data, wasmHeaderSize, Len(data)))
       IN IF p.err # "" THEN Fail(p.err) /\ UNCHANGED secs
          ELSE pc' = "FindExportIndex" /\ secs' = p.secs /\ UNCHANGED <<out, err>>
    /\ UNCHANGED <<codec, scan, mem, cli, plug, m, data, fnIndex, start, res2>>

FindExportIndex ==
    /\ pc = "FindExportIndex"
    /\ LET f == findInitializeIndex(secs)
       IN IF f.err # "" THEN Fail(f.err) /\ UNCHANGED fnIndex
          ELSE pc' = "DropExistingStart" /\ fnIndex' = f.idx /\ UNCHANGED <<out, err>>
    /\ UNCHANGED <<codec, scan, mem, cli, plug, m, data, secs, start, res2>>

DropExistingStart ==
    /\ pc = "DropExistingStart"
    /\ secs' = dropStartSection(secs)
    /\ pc' = "BuildStart"
    /\ UNCHANGED <<codec, scan, mem, cli, plug, m, data, fnIndex, start, out, err, res2>>

BuildStart ==
    /\ pc = "BuildStart"
    /\ start' = buildStartSection(fnIndex)
    /\ pc' = "InsertStart"
    /\ UNCHANGED <<codec, scan, mem, cli, plug, m, data, secs, fnIndex, out, err, res2>>

InsertStart ==
    /\ pc = "InsertStart"
    /\ secs' = insertStartSection(secs, start)
    /\ pc' = "Serialize"
    /\ UNCHANGED <<codec, scan, mem, cli, plug, m, data, fnIndex, start, out, err, res2>>

Serialize ==
    /\ pc = "Serialize"
    /\ out' = rebuildModule(Slice(data, 0, wasmHeaderSize), secs)
    /\ pc' = "added"
    /\ UNCHANGED <<codec, scan, mem, cli, plug, m, data, secs, fnIndex, start, err, res2>>

\* StripStartSection(data)
Strip ==
    /\ pc = "idle"
    /\ out' = StripStartSection(data)
    /\ pc' = "stripped"
    /\ UNCHANGED <<codec, scan, mem, cli, plug, m, data, secs, fnIndex, start, err, res2>>

\* StripStartSection on the result of StripStartSection
StripAgain ==
    /\ pc = "stripped"
    /\ res2' = [out |-> StripStartSection(out), err |-> ""]
    /\ pc' = "restripped"
    /\ UNCHANGED <<codec, scan, mem, cli, plug, m, data, secs, fnIndex, start, out, err>>

\* StripStartSection on the module AddStartSection produced
StripAdded ==
    /\ pc = "added"
    /\ res2' = [out |-> StripStartSection(out), err |-> ""]
    /\ pc' = "add_stripped"
    /\ UNCHANGED <<codec, scan, mem, cli, plug, m, data, secs, fnIndex, start, out, err>>

\* AddStartSection on the module AddStartSection produced
AddAgain ==
    /\ pc = "added"
    /\ res2' = AddStartSection(out)
    /\ pc' = "readded"
    /\ UNCHANGED <<codec, scan, mem, cli, plug, m, data, secs, fnIndex, start, out, err>>

Next ==
    \/ ValidateHeader
    \/ ParseSections
    \/ FindExportIndex
    \/ DropExistingStart
    \/ BuildStart
    \/ InsertStart
    \/ Serialize
    \/ Strip
    \/ StripAgain
    \/ StripAdded
    \/ AddAgain

Spec == Init /\ [][Next]_vars

\* ------------------------------------------------------------------------
\* What is known of the input by construction.
\* ------------------------------------------------------------------------
ValidHeader == m.hdr = GoodHeader
\* every section is well formed and nothing trails the last one
Parseable == m.tail = <<>> /\ \A i \in 1..Len(m.secs) : m.secs[i].form = "ok"
MinimalSizes == \A i \in 1..Len(m.secs) : m.secs[i].minimal
NoStart == \A i \in 1..Len(m.secs) : m.secs[i].id # 8
ExportsDecode == \A i \in 1..Len(m.secs) : m.secs[i].decodes

Ids(ss) == [i \in 1..Len(ss) |-> ss[i].id]
\* the standard (id # 0) ids of a sequence of ids never decrease
StdNonDecreasing(ids) ==
    \A i, j \in 1..Len(ids) : (i < j /\ ids[i] # 0 /\ ids[j] # 0) => ids[i] <= ids[j]

IsInitExport(e) == e.kind = 0 /\ e.name = InitializeName
HasInitExport(c) == \E k \in 1..Len(c.exports) : IsInitExport(c.exports[k])
NoInitExport == \A i \in 1..Len(m.secs) : ~HasInitExport(m.secs[i])
Min(S) == CHOOSE x \in S : \A y \in S : x <= y
Max(S) == CHOOSE x \in S : \A y \in S : x >= y
\* the first function export named `_initialize` of the first export section
\* that has one
FirstInitExport ==
    LET c == m.secs[Min({i \in 1..Len(m.secs) : HasInitExport(m.secs[i])})]
    IN c.exports[Min({k \in 1..Len(c.exports) : IsInitExport(c.exports[k])})]

NotStartInput(c) == c.id # 8
\* the section records of the module AddStartSection returned
OutSecs == parseSections(Slice(out, 8, Len(out)))

\* ------------------------------------------------------------------------
\* C1
\* ------------------------------------------------------------------------
RoundTripCase ==
    /\ pc = "add_stripped"
    /\ ValidHeader /\ Parseable /\ NoStart
    /\ StdNonDecreasing(Ids(m.secs))

\* C1 as stated: for a module with a valid header, parseable sections in
\* canonical order, no start section and an `_initialize` function export,
\* StripStartSection(AddStartSection(m)) is byte-for-byte m.
AddThenStripRoundTrip == RoundTripCase => res2.out = data

\* C1 amended: the same, for modules whose section size fields are all
\* written in the shortest LEB128 form.
AddThenStripRoundTripMinimal == (RoundTripCase /\ MinimalSizes) => res2.out = data

AddThenStripRoundTripWitness ==
    /\ RoundTripCase /\ MinimalSizes
    /\ \E i \in 1..Len(m.secs) : m.secs[i].id > 8
    /\ out # data
    /\ res2.out = data

\* ------------------------------------------------------------------------
\* C2
\* ------------------------------------------------------------------------
\* C2: for a parseable module of at least 8 bytes, StripStartSection returns
\* the header and every record other than the id-8 records verbatim (id byte,
\* size-field bytes, body bytes), in order.
StripVerbatim ==
    (pc = "stripped" /\ Len(m.hdr) = 8 /\ Parseable)
        => out = m.hdr \o SecsBytes(SelectSeq(m.secs, NotStartInput), 1)

\* ------------------------------------------------------------------------
\* C3
\* ------------------------------------------------------------------------
\* C3: StripStartSection(StripStartSection(b)) = StripStartSection(b) for
\* every buffer b.
StripIdempotent == pc = "restripped" => res2.out = out

StripIdempotentWitness ==
    /\ pc = "restripped"
    /\ out # data
    /\ Len(out) > 8
    /\ res2.out = out

\* ------------------------------------------------------------------------
\* C4
\* ------------------------------------------------------------------------
\* C4: on a buffer shorter than 8 bytes, or one with a section whose size
\* cannot be decoded or whose body overruns the buffer, StripStartSection
\* returns the whole input, also when a start section came before the
\* malformed one.
StripFailOpen ==
    (pc = "stripped" /\ (Len(data) < 8 \/ (Len(m.hdr) = 8 /\ ~Parseable)))
        => out = data

StripFailOpenWitness ==
    /\ pc = "stripped"
    /\ Len(m.hdr) = 8
    /\ Len(m.secs) >= 2
    /\ m.secs[1].id = 8 /\ m.secs[1].form = "ok"
    /\ m.secs[2].form # "ok"
    /\ out = data

\* ------------------------------------------------------------------------
\* C5
\* ------------------------------------------------------------------------
\* C5 as stated: whenever AddStartSection succeeds, the standard section ids
\* of its output never decrease.
CanonicalOrderAlways ==
    pc = "added" => (OutSecs.err = "" /\ StdNonDecreasing(Ids(OutSecs.secs)))

\* C5 amended: whenever AddStartSection succeeds on a module whose standard
\* sections other than start sections are in non-decreasing id order, the
\* standard section ids of its output never decrease.
CanonicalOrderPreserved ==
    (pc = "added" /\ StdNonDecreasing(Ids(SelectSeq(m.secs, NotStartInput))))
        => (OutSecs.err = "" /\ StdNonDecreasing(Ids(OutSecs.secs)))

CanonicalOrderPreservedWitness ==
    /\ pc = "added"
    /\ StdNonDecreasing(Ids(SelectSeq(m.secs, NotStartInput)))
    /\ \E i, j \in 1..Len(m.secs) : i < j /\ m.secs[i].id = 10 /\ m.secs[j].id = 0
    /\ StdNonDecreasing(Ids(OutSecs.secs))

\* ------------------------------------------------------------------------
\* C6
\* ------------------------------------------------------------------------
InsertStep == pc = "InsertStart" /\ pc' = "Serialize"
InsertedAt(ss, k, s) == SubSeq(ss, 1, k) \o <<s>> \o SubSeq(ss, k + 1, Len(ss))
\* the position of the last record with id <= 8, 0 when there is none
LastLE(ss) == Max({0} \cup {k \in 1..Len(ss) : ss[k].id <= 8})
\* the length of the longest leading run of records with id <= 8
LeadingLE(ss) == Max({k \in 0..Len(ss) : \A j \in 1..k : ss[j].id <= 8})

\* C6 as stated: insertStartSection puts the new record right after the last
\* record with id <= 8, wherever that record is, and first when there is none.
InsertAfterLastLE ==
    [][InsertStep => secs' = InsertedAt(secs, LastLE(secs), start)]_vars

\* C6 amended: insertStartSection puts the new record right after the
\* longest leading run of records with id <= 8 (a record with id <= 8 that
\* follows a record with id > 8 is not counted), and first when the sequence
\* does not begin with a record with id <= 8.
InsertAfterLeadingLE ==
    [][InsertStep =>
         /\ secs' = InsertedAt(secs, LeadingLE(secs), start)
         /\ (LeadingLE(secs) = 0 => secs'[1] = start)]_vars

InsertAfterLeadingLEWitness ==
    /\ pc = "Serialize"
    /\ Len(secs) = 4
    /\ secs[1].id = 7 /\ secs[2] = start /\ secs[3].id = 10 /\ secs[4].id = 0

\* ------------------------------------------------------------------------
\* C7
\* ------------------------------------------------------------------------
StartPositions(ss) == {i \in 1..Len(ss) : ss[i].id = 8}

\* C7: whenever AddStartSection succeeds its output has exactly one id-8
\* record, whose body is the LEB128 encoding of the index of the
\* `_initialize` export that was found.
ExistingStartReplaced ==
    pc = "added" =>
        /\ OutSecs.err = ""
        /\ Cardinality(StartPositions(OutSecs.secs)) = 1
        /\ \A i \in StartPositions(OutSecs.secs) :
               OutSecs.secs[i].body = FirstInitExport.idxMin

ExistingStartReplacedWitness ==
    /\ pc = "added"
    /\ Cardinality(StartPositions(m.secs)) = 2
    /\ Cardinality(StartPositions(OutSecs.secs)) = 1
    /\ FirstInitExport.idxEnc # FirstInitExport.idxMin

\* ------------------------------------------------------------------------
\* C8
\* ------------------------------------------------------------------------
\* C8: AddStartSection applied to its own output succeeds and returns the
\* same bytes.
AddIdempotent == pc = "readded" => res2 = [out |-> out, err |-> ""]

AddIdempotentWitness ==
    /\ pc = "readded"
    /\ res2.err = "" /\ res2.out = out
    /\ StartPositions(m.secs) # {}
    /\ \E i \in 1..Len(m.secs) : m.secs[i].id > 8

\* ------------------------------------------------------------------------
\* C9
\* ------------------------------------------------------------------------
AddCalled == pc \notin {"idle", "stripped", "restripped"}
NotFoundCase == ValidHeader /\ Parseable /\ ExportsDecode /\ NoInitExport

\* C9: on a module with a valid header and well-formed sections none of whose
\* export sections has a function export named `_initialize`,
\* AddStartSection returns the not-found error and no buffer.
NotFoundPropagation ==
    (NotFoundCase /\ AddCalled) =>
        /\ pc \in {"ParseSections", "FindExportIndex", "failed"}
        /\ pc = "failed" => (err = "export _initialize not found" /\ out = <<>>)

NotFoundPropagationWitness ==
    /\ NotFoundCase
    /\ pc = "failed"
    /\ err = "export _initialize not found"
    /\ \E i \in 1..Len(m.secs) : m.secs[i] = NoInitExportSec

\* ------------------------------------------------------------------------
\* C10
\* ------------------------------------------------------------------------
BadHeader ==
    \/ Len(data) < 8
    \/ SubSeq(data, 1, 4) # <<0, 97, 115, 109>>
    \/ SubSeq(data, 5, 8) # <<1, 0, 0, 0>>
HeaderErrors == {"file too small", "bad wasm magic", "unsupported wasm version"}

\* C10: on a buffer shorter than 8 bytes, with another magic, or with a
\* version other than 1, AddStartSection returns a header error and no
\* buffer, and no section is parsed, whatever follows the header.
MalformedHeaderRejected ==
    (BadHeader /\ AddCalled) =>
        (pc = "failed" /\ err \in HeaderErrors /\ out = <<>> /\ secs = <<>>)

MalformedHeaderRejectedWitness ==
    /\ BadHeader
    /\ pc = "failed"
    /\ err = "unsupported wasm version"
    /\ m.secs = <<InitExportSec>>

\* ------------------------------------------------------------------------
\* C11
\* ------------------------------------------------------------------------
SectionErrors == {"invalid section size", "section exceeds file"}
ExportErrors ==
    {"bad export count", "bad export name", "truncated export kind", "bad export index"}
NotFoundError == "export _initialize not found"
AddStages ==
    {"idle", "ParseSections", "FindExportIndex", "DropExistingStart", "BuildStart",
     "InsertStart", "Serialize"}
\* the steps of the pipeline, and the failures each stage can end in
AddSteps ==
    { <<"idle", "ParseSections">>, <<"ParseSections", "FindExportIndex">>,
      <<"FindExportIndex", "DropExistingStart">>, <<"DropExistingStart", "BuildStart">>,
      <<"BuildStart", "InsertStart">>, <<"InsertStart", "Serialize">>,
      <<"Serialize", "added">>,
      <<"idle", "failed">>, <<"ParseSections", "failed">>, <<"FindExportIndex", "failed">> }
StageErrors(stage) ==
    IF stage = "idle" THEN HeaderErrors
    ELSE IF stage = "ParseSections" THEN SectionErrors
    ELSE ExportErrors \cup {NotFoundError}

\* C11: the stages run in the order ValidateHeader, ParseSections,
\* FindExportIndex, DropExistingStart, BuildStart, InsertStart, Serialize; a
\* failing stage ends the call with its own error and a nil buffer and
\* nothing runs after it; a malformed section anywhere in a module with a
\* valid header ends the call in ParseSections with a section-parse error,
\* whatever the export sections hold.
PipelineOrder ==
    [][/\ (pc \in AddStages /\ ~(pc = "idle" /\ pc' = "stripped")) =>
            /\ <<pc, pc'>> \in AddSteps
            /\ pc' = "failed" => (err' \in StageErrors(pc) /\ out' = <<>>)
            /\ pc' # "failed" => err' = ""
            /\ (pc = "ParseSections" /\ ~Parseable) =>
                    (pc' = "failed" /\ err' \in SectionErrors)
       /\ pc = "failed" => pc' = "failed"]_vars

PipelineOrderWitness ==
    /\ pc = "failed"
    /\ err = "section exceeds file"
    /\ out = <<>>
    /\ m.secs = <<InitExportSec, BadExportSec, OverrunSec>>

\* ------------------------------------------------------------------------
\* C17
\* ------------------------------------------------------------------------
\* C17: when the standard sections of the input are in non-decreasing id
\* order, custom sections anywhere, the standard sections of the output of a
\* successful AddStartSection are in non-decreasing id order.
OrderedInputOrderedOutput ==
    (pc = "added" /\ StdNonDecreasing(Ids(m.secs)))
        => StdNonDecreasing(Ids(OutSecs.secs))

OrderedInputOrderedOutputWitness ==
    /\ pc = "added"
    /\ StdNonDecreasing(Ids(m.secs))
    /\ Ids(m.secs) = <<0, 7, 10>>
    /\ Ids(OutSecs.secs) = <<0, 7, 8, 10>>

\* ------------------------------------------------------------------------
\* C18
\* ------------------------------------------------------------------------
\* the position of the first record with id > 8, Len + 1 when there is none
FirstGT(ss) == Min({k \in 1..Len(ss) : ss[k].id > 8} \cup {Len(ss) + 1})

\* C18: insertStartSection puts the new record right before the first record
\* with id > 8, last when there is none, and every record before the new one
\* has id <= 8.
InsertBeforeFirstGT ==
    [][InsertStep =>
         /\ Len(secs') = Len(secs) + 1
         /\ secs'[FirstGT(secs)] = start
         /\ \A j \in 1..Len(secs) :
                secs'[IF j < FirstGT(secs) THEN j ELSE j + 1] = secs[j]
         /\ \A j \in 1..(FirstGT(secs) - 1) : secs'[j].id <= 8]_vars

InsertBeforeFirstGTWitness ==
    /\ pc = "Serialize"
    /\ Len(secs) = 4
    /\ secs[1].id = 1 /\ secs[2].id = 7 /\ secs[3] = start /\ secs[4].id = 10

\* ------------------------------------------------------------------------
\* C19
\* ------------------------------------------------------------------------
\* the export sections of the input that end the lookup: one that does not
\* decode, or one that has a function export named `_initialize`
Deciding == {i \in 1..Len(m.secs) :
                m.secs[i].id = 7 /\ (~m.secs[i].decodes \/ HasInitExport(m.secs[i]))}
FoundStates == {"DropExistingStart", "BuildStart", "InsertStart", "Serialize", "added",
                "add_stripped", "readded"}
FindDone == pc \in FoundStates \/ (pc = "failed" /\ err \notin HeaderErrors \cup SectionErrors)

\* C19: findInitializeIndex goes through the export sections in module
\* order: it returns the index of the first export section that has a match,
\* the not-found error when no export section has one, and the parse error
\* of a malformed export section that comes before any match.
FindVisitsExportsInOrder ==
    FindDone =>
        IF Deciding = {}
        THEN pc = "failed" /\ err = NotFoundError
        ELSE IF ~m.secs[Min(Deciding)].decodes
        THEN pc = "failed" /\ err \in ExportErrors
        ELSE pc \in FoundStates /\ fnIndex = FirstInitExport.idx

FindVisitsExportsInOrderWitness ==
    /\ pc = "DropExistingStart"
    /\ m.secs = <<NoInitExportSec, CodeSec, TwoInitExportSec>>
    /\ fnIndex = U32(200)

\* ------------------------------------------------------------------------
\* C20
\* ------------------------------------------------------------------------
InputRecords == [i \in 1..Len(m.secs) |-> [id |-> m.secs[i].id, body |-> m.secs[i].body]]
\* the first malformed part of the input: a section, or the trailing bytes
FirstBad == Min({i \in 1..Len(m.secs) : m.secs[i].form # "ok"} \cup {Len(m.secs) + 1})
ExpectedParseError ==
    IF FirstBad <= Len(m.secs)
    THEN (IF m.secs[FirstBad].form = "badsize"
          THEN "invalid section size" ELSE "section exceeds file")
    ELSE (IF m.tail = <<1>> THEN "invalid section size" ELSE "section exceeds file")
\* the bytes the first k records read take up: id, size field, body
RECURSIVE SpanSum(_)
SpanSum(k) ==
    IF k = 0 THEN 0
    ELSE 1 + Len(m.secs[k].sz) + Len(secs[k].body) + SpanSum(k - 1)
ParseDone == AddCalled /\ pc # "ParseSections" /\ ValidHeader

\* C20: when parseSections succeeds its records are, in order, the records
\* the buffer is made of (id byte, size field, body of the declared length),
\* covering every byte once, and the empty buffer gives no record; it fails
\* with "invalid section size" when a size cannot be decoded and with
\* "section exceeds file" when a body reaches past the end of the buffer.
ParseTilesBuffer ==
    ParseDone =>
        IF Parseable
        THEN /\ ~(pc = "failed" /\ err \in SectionErrors)
             /\ pc = "FindExportIndex" =>
                    /\ secs = InputRecords
                    /\ SpanSum(Len(secs)) = Len(data) - 8
        ELSE pc = "failed" /\ err = ExpectedParseError /\ secs = <<>>

ParseTilesBufferWitness ==
    /\ pc = "FindExportIndex"
    /\ m.secs = <<CustomSec, PaddedTypeSec, InitExportSec>>
    /\ secs = InputRecords

\* ------------------------------------------------------------------------
\* The LEB128 codec on its own: writeU32 on sampled 32-bit values followed
\* by readU32 on the result, and readU32 on byte strings.
\* ------------------------------------------------------------------------
LoSamples == {127, 128, 16383, 16384, 2097151, 2097152, 268435455} \cup 0..MaxSmall
LebValues == {[lo |-> l, hi |-> h] : l \in LoSamples, h \in 0..15}
LebByteSamples == {0, 1, 127, 128, 255}
LebStrings == SeqsUpTo(LebByteSamples, MaxLebLen)

InitCodec ==
    /\ m = [hdr |-> GoodHeader, secs |-> <<>>, tail |-> <<>>]
    /\ data = GoodHeader
    /\ pc = "idle"
    /\ secs = <<>>
    /\ fnIndex = U32(0)
    /\ start = NoSection
    /\ out = <<>>
    /\ err = ""
    /\ res2 = NoResult
    /\ scan = NoScan
    /\ mem = NoMem
    /\ cli = NoCli
    /\ plug = NoPlug
    /\ codec \in {[NoCodec EXCEPT !.pc = "enc", !.x = v] : v \in LebValues}
                 \cup {[NoCodec EXCEPT !.pc = "dec", !.bytes = b] : b \in LebStrings}

wasmVars == <<m, data, pc, secs, fnIndex, start, out, err, res2>>

\* writeU32(x)
WriteU32 ==
    /\ codec.pc = "enc"
    /\ codec' = [codec EXCEPT !.pc = "encoded", !.bytes = writeU32(codec.x)]
    /\ UNCHANGED <<wasmVars, scan, mem, cli, plug>>

\* readU32 on the bytes writeU32 returned
ReadWritten ==
    /\ codec.pc = "encoded"
    /\ codec' = [codec EXCEPT !.pc = "roundtrip", !.res = readU32(codec.bytes)]
    /\ UNCHANGED <<wasmVars, scan, mem, cli, plug>>

\* readU32(b)
ReadU32 ==
    /\ codec.pc = "dec"
    /\ codec' = [codec EXCEPT !.pc = "decoded", !.res = readU32(codec.bytes)]
    /\ UNCHANGED <<wasmVars, scan, mem, cli, plug>>

NextCodec ==
    \/ WriteU32
    \/ ReadWritten
    \/ ReadU32

SpecCodec == InitCodec /\ [][NextCodec]_vars

\* ------------------------------------------------------------------------
\* C12
\* ------------------------------------------------------------------------
\* C12: readU32(writeU32(x)) is x with as many bytes consumed as writeU32
\* produced, between 1 and 5.
LebRoundTrip ==
    codec.pc = "roundtrip" =>
        /\ codec.res.val = codec.x
        /\ codec.res.n = Len(codec.bytes)
        /\ Len(codec.bytes) \in 1..5

LebRoundTripWitness ==
    /\ codec.pc = "roundtrip"
    /\ codec.x = [lo |-> 268435455, hi |-> 15]
    /\ codec.res = [val |-> codec.x, n |-> 5]

\* ------------------------------------------------------------------------
\* C13
\* ------------------------------------------------------------------------
\* the i-th 7-bit group of x, the least significant being group 0
Group(x, i) == IF i < 4 THEN (x.lo \div (128 ^ i)) % 128 ELSE x.hi
\* the groups up to the highest one that is not zero, one group for 0
GroupCount(x) == Max({1} \cup {i + 1 : i \in {j \in 0..4 : Group(x, j) # 0}})

\* C13: writeU32(x) is the shortest LEB128 of x: one byte per 7-bit group up
\* to the highest non-zero group, least significant group first, the
\* continuation bit set on every byte but the last, the last byte non-zero
\* unless x = 0.
WriteMinimal ==
    codec.pc = "encoded" =>
        /\ Len(codec.bytes) = GroupCount(codec.x)
        /\ \A i \in 1..Len(codec.bytes) :
               /\ codec.bytes[i] % 128 = Group(codec.x, i - 1)
               /\ (codec.bytes[i] >= 128) <=> (i < Len(codec.bytes))
        /\ (codec.bytes[Len(codec.bytes)] = 0) => (codec.x = U32(0) /\ codec.bytes = <<0>>)

WriteMinimalWitness ==
    /\ codec.pc = "encoded"
    /\ codec.x = U32(16384)
    /\ codec.bytes = <<128, 128, 1>>

\* ------------------------------------------------------------------------
\* C14
\* ------------------------------------------------------------------------
\* the positions, among the first five, of the bytes whose continuation bit
\* is clear
ClearPositions(b) == {k \in 1..Len(b) : k <= 5 /\ b[k] < 128}

\* C14: readU32 returns (0, 0) exactly when none of the first min(5, len)
\* bytes has the continuation bit clear; otherwise it consumes the bytes up
\* to and including the first such byte, never more than 5.
ReadFailsExactly ==
    codec.pc = "decoded" =>
        IF ClearPositions(codec.bytes) = {}
        THEN codec.res = [val |-> U32(0), n |-> 0]
        ELSE codec.res.n = Min(ClearPositions(codec.bytes)) /\ codec.res.n <= 5

ReadFailsExactlyWitness ==
    /\ codec.pc = "decoded"
    /\ codec.bytes = <<128, 255, 128, 255, 128, 1>>
    /\ codec.res.n = 0

\* ------------------------------------------------------------------------
\* The export scanner on its own: scanExportsForInitialize on the leading
\* bytes (any number of them) of an export body written down as a declared
\* count followed by export entries; the declared count may be lower or one
\* higher than the number of entries that follow.
\* ------------------------------------------------------------------------
EntryInputs ==
    { Export(InitializeName, 0, <<131, 0>>, U32(3), <<3>>),
      Export(InitializeName, 2, <<0>>, U32(0), <<0>>),
      Export(InitializeUpper, 0, <<5>>, U32(5), <<5>>),
      Export(InitializeName, 0, <<200, 1>>, U32(200), <<200, 1>>),
      Export(<<>>, 0, <<1>>, U32(1), <<1>>) }

FullBody(entries, count) == <<count>> \o ExportEntries(entries, 1)

ScanInputs ==
    UNION { { [NoScan EXCEPT !.pc = "ready", !.entries = es, !.count = c,
                             !.body = SubSeq(FullBody(es, c), 1, t)] :
                c \in 0..(Len(es) + 1), t \in 0..Len(FullBody(es, 0)) } :
            es \in SeqsUpTo(EntryInputs, MaxExports) }

InitScan ==
    /\ m = [hdr |-> GoodHeader, secs |-> <<>>, tail |-> <<>>]
    /\ data = GoodHeader
    /\ pc = "idle"
    /\ secs = <<>>
    /\ fnIndex = U32(0)
    /\ start = NoSection
    /\ out = <<>>
    /\ err = ""
    /\ res2 = NoResult
    /\ codec = NoCodec
    /\ mem = NoMem
    /\ cli = NoCli
    /\ plug = NoPlug
    /\ scan \in ScanInputs

\* scanExportsForInitialize(b)
ScanExports ==
    /\ scan.pc = "ready"
    /\ scan' = [scan EXCEPT !.pc = "scanned", !.res = scanExportsForInitialize(scan.body)]
    /\ UNCHANGED <<wasmVars, codec, mem, cli, plug>>

NextScan == ScanExports

SpecScan == InitScan /\ [][NextScan]_vars

\* what is known of the body by construction
EntryLen(e) == 1 + Len(e.name) + 1 + Len(e.idxEnc)
\* the offset in the body at which the j-th entry begins
RECURSIVE EntryStart(_)
EntryStart(j) == IF j = 1 THEN 1 ELSE EntryStart(j - 1) + EntryLen(scan.entries[j - 1])
\* how the j-th declared record ends up in a body cut to Len(scan.body) bytes
RecordState(j) ==
    IF j > Len(scan.entries) THEN "bad export name"
    ELSE LET e == scan.entries[j]
             t == Len(scan.body)
             nameEnd == EntryStart(j) + 1 + Len(e.name)
         IN IF t < nameEnd THEN "bad export name"
            ELSE IF t = nameEnd THEN "truncated export kind"
            ELSE IF t < nameEnd + 1 + Len(e.idxEnc) THEN "bad export index"
            ELSE "ok"
Declared == 1..scan.count
Malformed == {j \in Declared : RecordState(j) # "ok"}
Matching == {j \in Declared : RecordState(j) = "ok" /\ IsInitExport(scan.entries[j])}

\* ------------------------------------------------------------------------
\* C15
\* ------------------------------------------------------------------------
\* C15: on a well-formed export body scanExportsForInitialize returns the
\* index of the first entry, in body order, that is a function export named
\* exactly `_initialize`; an entry of another kind or with a name differing
\* in case is passed over.
ScanFirstMatch ==
    (scan.pc = "scanned" /\ scan.body # <<>> /\ Malformed = {} /\ Matching # {})
        => scan.res =
             [idx |-> scan.entries[Min(Matching)].idx, found |-> TRUE, err |-> ""]

ScanFirstMatchWitness ==
    /\ scan.pc = "scanned"
    /\ scan.body = FullBody(scan.entries, 2)
    /\ scan.entries = << Export(InitializeName, 2, <<0>>, U32(0), <<0>>),
                         Export(InitializeName, 0, <<200, 1>>, U32(200), <<200, 1>>) >>
    /\ scan.res.found /\ scan.res.idx = U32(200)

\* ------------------------------------------------------------------------
\* C16
\* ------------------------------------------------------------------------
NotFoundNoError == scan.res.err = "" /\ ~scan.res.found

\* C16 as stated: a parse error is returned whenever the count cannot be
\* decoded or any declared record is malformed; not found without error
\* only when all declared records decode and none matches.
ScanErrorOnAnyMalformed ==
    scan.pc = "scanned" =>
        /\ (scan.body = <<>> \/ Malformed # {}) => scan.res.err \in ExportErrors
        /\ NotFoundNoError => (Malformed = {} /\ Matching = {})

\* C16 amended: a parse error is returned whenever the count cannot be
\* decoded, or a declared record is malformed and no function export named
\* `_initialize` comes before the first malformed record (a match that comes
\* first is returned and the rest of the body is not read); not found
\* without error only when all declared records decode and none matches.
ScanErrorBeforeMatch ==
    scan.pc = "scanned" =>
        /\ scan.body = <<>> => scan.res.err = "bad export count"
        /\ (scan.body # <<>> /\ Malformed # {}
              /\ \A j \in Matching : j > Min(Malformed))
             => scan.res.err = RecordState(Min(Malformed))
        /\ NotFoundNoError => (Malformed = {} /\ Matching = {})

ScanErrorBeforeMatchWitness ==
    /\ scan.pc = "scanned"
    /\ Len(scan.entries) = 2
    /\ scan.count = 2
    /\ ~IsInitExport(scan.entries[1]) /\ IsInitExport(scan.entries[2])
    /\ RecordState(1) = "ok" /\ RecordState(2) = "bad export index"
    /\ scan.res.err = "bad export index"

\* ------------------------------------------------------------------------
\* C21
\* ------------------------------------------------------------------------
\* the shortest LEB128 form of a length below 2^14
ShortestSize(n) == IF n < 128 THEN <<n>> ELSE <<128 + (n % 128), n \div 128>>
\* id, shortest size field and body of the records k.. of ss, one after another
RECURSIVE RecordBytes(_, _)
RecordBytes(ss, k) ==
    IF k > Len(ss) THEN <<>>
    ELSE <<ss[k].id>> \o ShortestSize(Len(ss[k].body)) \o ss[k].body
         \o RecordBytes(ss, k + 1)

\* C21: rebuildModule is total and parseSections inverts it: for the header
\* and the record sequence it is given (any ids, in any order) the module it
\* returns is the header followed, for each record in order, by the id, the
\* shortest LEB128 of the body length and the body; and parseSections on the
\* bytes after the header succeeds and returns that record sequence.
WriterTotalReaderInverts ==
    pc = "added" =>
        /\ out = Slice(data, 0, 8) \o RecordBytes(secs, 1)
        /\ OutSecs = [secs |-> secs, err |-> ""]

\* records out of order, one of them with a body of more than 127 bytes
WriterTotalReaderInvertsWitness ==
    /\ pc = "added"
    /\ Len(secs) = 4
    /\ secs[1].id = 7 /\ secs[2].id = 8
    /\ secs[3].id = 10 /\ Len(secs[3].body) = 130
    /\ secs[4].id = 0
    /\ out = Slice(data, 0, 8) \o RecordBytes(secs, 1)

\* ------------------------------------------------------------------------
\* C22
\* ------------------------------------------------------------------------
\* the records of the input that are not start sections, in input order
\* (the input's records begin after a header of 8 bytes)
KeptRecords ==
    LET kept == SelectSeq(m.secs, NotStartInput)
    IN [i \in 1..Len(kept) |-> [id |-> kept[i].id, body |-> kept[i].body]]
\* ss without the record at position p
Without(ss, p) == [i \in 1..(Len(ss) - 1) |-> IF i < p THEN ss[i] ELSE ss[i + 1]]
DropDone == pc \in {"BuildStart", "InsertStart"}

\* C22: AddStartSection changes nothing but start records: the records of
\* its output whose id is not 8 are the records of its input whose id is not
\* 8, with the same ids and bodies in the same relative order, and the 8
\* header bytes are copied unchanged; dropStartSection removes every record
\* of id 8 and no other.
AddChangesOnlyStart ==
    /\ (DropDone /\ ValidHeader) => secs = KeptRecords
    /\ (pc = "added" /\ ValidHeader) =>
           /\ Slice(out, 0, 8) = m.hdr
           /\ \E p \in 1..Len(OutSecs.secs) :
                  /\ OutSecs.secs[p].id = 8
                  /\ Without(OutSecs.secs, p) = KeptRecords

AddChangesOnlyStartWitness ==
    /\ pc = "added"
    /\ m.secs = <<StartSec, InitExportSec, StartSec>>
    /\ Len(OutSecs.secs) = 2
    /\ OutSecs.secs[1].id = 7 /\ OutSecs.secs[2] = start

\* ------------------------------------------------------------------------
\* The two exported operations on a caller's buffer.  arr is the content of
\* the array behind the argument b (taken to have no spare capacity), out
\* the content of the slice being built and alias whether out is backed by
\* that same array, in which case an append within capacity writes into it.
\* ------------------------------------------------------------------------
\* append(out, xs...)
goAppend(st, xs) ==
    IF st.alias /\ Len(st.out) + Len(xs) <= Len(st.arr)
    THEN [st EXCEPT !.out = st.out \o xs,
                    !.arr = [i \in 1..Len(st.arr) |->
                                IF i > Len(st.out) /\ i <= Len(st.out) + Len(xs)
                                THEN xs[i - Len(st.out)] ELSE st.arr[i]]]
    ELSE [st EXCEPT !.out = st.out \o xs, !.alias = FALSE]

\* variant: the output is built in place, on the header slice of the input
stripOutShared(b) == [arr |-> b, out |-> Slice(b, 0, wasmHeaderSize), alias |-> TRUE]

\* var out []byte; out = append(out, header...): a nil slice, so a new array
stripOut(b) == goAppend([arr |-> b, out |-> <<>>, alias |-> FALSE], Slice(b, 0, wasmHeaderSize))

\* the loop of StripStartSection; rest is b[wasmHeaderSize:], a view of arr.
\* The result is the array as the call leaves it and the slice returned.
RECURSIVE stripOnBufferLoop(_, _)
stripOnBufferLoop(st, off) ==
    LET rest == Slice(st.arr, wasmHeaderSize, Len(st.arr))
    IN IF off < Len(rest)
       THEN LET id == rest[off + 1]
                off1 == off + 1
                r == readU32(Slice(rest, off1, Len(rest)))
                size == toInt(r.val)
                bodyStart == off1 + r.n
                bodyEnd == bodyStart + size
                st2 == goAppend(goAppend(st, <<id>>), writeU32(r.val))
                st3 == goAppend(st2, Slice(Slice(st2.arr, wasmHeaderSize, Len(st2.arr)),
                                           bodyStart, bodyEnd))
            IN IF r.n = 0 \/ off1 + r.n + size > Len(rest)
               THEN [arr |-> st.arr, ret |-> st.arr]
               ELSE IF id # wasmSectionIDStart
               THEN stripOnBufferLoop(st3, bodyEnd)
               ELSE stripOnBufferLoop(st, bodyEnd)
       ELSE [arr |-> st.arr, ret |-> st.out]

StripOnBuffer(b) ==
    IF Len(b) < wasmHeaderSize THEN [arr |-> b, ret |-> b]
    ELSE stripOnBufferLoop(stripOut(b), 0)

\* var out bytes.Buffer; out.Write(header): the buffer grows an array of its own
rebuildOut(b, header) == goAppend([arr |-> b, out |-> <<>>, alias |-> FALSE], header)

\* the loop of rebuildModule; the bodies are the copies parseSections made
RECURSIVE rebuildOnBuffer(_, _, _)
rebuildOnBuffer(st, ss, k) ==
    IF k > Len(ss) THEN st
    ELSE rebuildOnBuffer(
             goAppend(goAppend(goAppend(st, <<ss[k].id>>),
                               writeU32(U32(Len(ss[k].body)))),
                      ss[k].body),
             ss, k + 1)

AddOnBuffer(b) ==
    LET e == ensureMagic(b)
        p == parseSections(Slice(b, wasmHeaderSize, Len(b)))
        f == findInitializeIndex(p.secs)
        ss == insertStartSection(dropStartSection(p.secs), buildStartSection(f.idx))
        st == rebuildOnBuffer(rebuildOut(b, Slice(b, 0, wasmHeaderSize)), ss, 1)
    IN IF e # "" THEN [arr |-> b, ret |-> [out |-> <<>>, err |-> e]]
       ELSE IF p.err # "" THEN [arr |-> b, ret |-> [out |-> <<>>, err |-> p.err]]
       ELSE IF f.err # "" THEN [arr |-> b, ret |-> [out |-> <<>>, err |-> f.err]]
       ELSE [arr |-> st.arr, ret |-> [out |-> st.out, err |-> ""]]

\* the module pipeline is not running
WasmIdle ==
    /\ pc = "idle"
    /\ secs = <<>>
    /\ fnIndex = U32(0)
    /\ start = NoSection
    /\ out = <<>>
    /\ err = ""
    /\ res2 = NoResult

\* the caller holds a buffer with the bytes of an input module
InitMem ==
    /\ m \in Inputs
    /\ data = Bytes(m)
    /\ WasmIdle
    /\ codec = NoCodec
    /\ scan = NoScan
    /\ cli = NoCli
    /\ plug = NoPlug
    /\ mem = [pc |-> "ready", arr |-> data, res |-> <<>>, again |-> <<>>]

\* StripStartSection(b) on the caller's buffer
CallStrip ==
    /\ mem.pc = "ready"
    /\ \E r \in {StripOnBuffer(mem.arr)} :
          mem' = [mem EXCEPT !.pc = "strip1", !.arr = r.arr, !.res = r.ret]
    /\ UNCHANGED <<wasmVars, codec, scan, cli, plug>>

\* a second StripStartSection(b) on the same buffer
CallStripAgain ==
    /\ mem.pc = "strip1"
    /\ \E r \in {StripOnBuffer(mem.arr)} :
          mem' = [mem EXCEPT !.pc = "strip2", !.arr = r.arr, !.again = r.ret]
    /\ UNCHANGED <<wasmVars, codec, scan, cli, plug>>

\* AddStartSection(data) on the caller's buffer
CallAdd ==
    /\ mem.pc = "ready"
    /\ \E r \in {AddOnBuffer(mem.arr)} :
          mem' = [mem EXCEPT !.pc = "add1", !.arr = r.arr, !.res = r.ret]
    /\ UNCHANGED <<wasmVars, codec, scan, cli, plug>>

\* a second AddStartSection(data) on the same buffer
CallAddAgain ==
    /\ mem.pc = "add1"
    /\ \E r \in {AddOnBuffer(mem.arr)} :
          mem' = [mem EXCEPT !.pc = "add2", !.arr = r.arr, !.again = r.ret]
    /\ UNCHANGED <<wasmVars, codec, scan, cli, plug>>

NextMem ==
    \/ CallStrip
    \/ CallStripAgain
    \/ CallAdd
    \/ CallAddAgain

SpecMem == InitMem /\ [][NextMem]_vars

RECURSIVE cmdReadU32Loop(_, _, _)
cmdReadU32Loop(b, i, x) ==
    IF i < Len(b) /\ i < 5
    THEN LET c == b[i + 1]
             x1 == OrShifted(x, c % 128, i)
         IN IF c < 128 THEN [val |-> x1, n |-> i + 1]
            ELSE cmdReadU32Loop(b, i + 1, x1)
    ELSE [val |-> U32(0), n |-> 0]

cmdReadU32(b) == cmdReadU32Loop(b, 0, U32(0))

RECURSIVE cmdWriteU32(_)
cmdWriteU32(x) ==
    LET c == x.lo % 128
        x1 == Shr7(x)
    IN IF x1 # U32(0) THEN <<c + 128>> \o cmdWriteU32(x1) ELSE <<c>>

cmdReadName(b) ==
    LET r == cmdReadU32(b)
    IN IF r.n = 0 THEN [name |-> <<>>, n |-> 0]
       ELSE IF toInt(r.val) + r.n > Len(b) THEN [name |-> <<>>, n |-> 0]
       ELSE [name |-> Slice(b, r.n, r.n + toInt(r.val)), n |-> r.n + toInt(r.val)]

\* variant: the fourth magic byte is not compared
cmdEnsureMagicThreeBytes(b) ==
    IF Len(b) < 8 THEN "file too small"
    ELSE IF b[1] # 0 \/ b[2] # 97 \/ b[3] # 115 THEN "bad wasm magic"
    ELSE IF LittleEndianUint32(Slice(b, 4, 8)) # U32(1) THEN "unsupported wasm version"
    ELSE ""

cmdEnsureMagic(b) ==
    IF Len(b) < 8 THEN "file too small"
    ELSE IF b[1] # 0 \/ b[2] # 97 \/ b[3] # 115 \/ b[4] # 109 THEN "bad wasm magic"
    ELSE IF LittleEndianUint32(Slice(b, 4, 8)) # U32(1) THEN "unsupported wasm version"
    ELSE ""

RECURSIVE cmdParseSectionsLoop(_, _, _)
cmdParseSectionsLoop(b, off, ss) ==
    IF off < Len(b)
    THEN IF off >= Len(b)
         THEN [secs |-> <<>>, err |-> "truncated section id"]
         ELSE LET id == b[off + 1]
                  r == cmdReadU32(Slice(b, off + 1, Len(b)))
                  off2 == off + 1 + r.n
                  size == toInt(r.val)
              IN IF r.n = 0
                 THEN [secs |-> <<>>, err |-> "invalid section size"]
                 ELSE IF off2 + size > Len(b)
                 THEN [secs |-> <<>>, err |-> "section exceeds file"]
                 ELSE cmdParseSectionsLoop(b, off2 + size,
                         Append(ss, [id |-> id, body |-> Slice(b, off2, off2 + size)]))
    ELSE [secs |-> ss, err |-> ""]

cmdParseSections(b) == cmdParseSectionsLoop(b, 0, <<>>)

\* the loop of the tool's scanExportsForInitialize, which returns a pointer
\* to the index: isNil is the nil pointer
RECURSIVE cmdScanExportsLoop(_, _, _, _)
cmdScanExportsLoop(b, off, i, count) ==
    IF count.hi > 0 \/ i < count.lo
    THEN LET nm == cmdReadName(Slice(b, off, Len(b)))
             off1 == off + nm.n
             kind == b[off1 + 1]
             r == cmdReadU32(Slice(b, off1 + 1, Len(b)))
         IN IF nm.n = 0
            THEN [idx |-> U32(0), isNil |-> TRUE, err |-> "bad export name"]
            ELSE IF off1 >= Len(b)
            THEN [idx |-> U32(0), isNil |-> TRUE, err |-> "truncated export kind"]
            ELSE IF r.n = 0
            THEN [idx |-> U32(0), isNil |-> TRUE, err |-> "bad export index"]
            ELSE IF kind = 0 /\ nm.name = InitializeName
            THEN [idx |-> r.val, isNil |-> FALSE, err |-> ""]
            ELSE cmdScanExportsLoop(b, off1 + 1 + r.n, i + 1, count)
    ELSE [idx |-> U32(0), isNil |-> TRUE, err |-> ""]

cmdScanExportsForInitialize(b) ==
    LET r == cmdReadU32(b)
    IN IF r.n = 0 THEN [idx |-> U32(0), isNil |-> TRUE, err |-> "bad export count"]
       ELSE cmdScanExportsLoop(b, r.n, 0, r.val)

RECURSIVE cmdFindInitializeLoop(_, _)
cmdFindInitializeLoop(ss, k) ==
    IF k > Len(ss) THEN [idx |-> U32(0), err |-> "export _initialize not found"]
    ELSE IF ss[k].id # 7 THEN cmdFindInitializeLoop(ss, k + 1)
    ELSE LET s == cmdScanExportsForInitialize(ss[k].body)
         IN IF s.err # "" THEN [idx |-> U32(0), err |-> s.err]
            ELSE IF ~s.isNil THEN [idx |-> s.idx, err |-> ""]
            ELSE cmdFindInitializeLoop(ss, k + 1)

cmdFindInitializeIndex(ss) == cmdFindInitializeLoop(ss, 1)

RECURSIVE cmdDropStartSection(_)
cmdDropStartSection(ss) ==
    IF ss = <<>> THEN <<>>
    ELSE IF Head(ss).id = 8 THEN cmdDropStartSection(Tail(ss))
    ELSE <<Head(ss)>> \o cmdDropStartSection(Tail(ss))

cmdBuildStartSection(index) == [id |-> 8, body |-> cmdWriteU32(index)]

RECURSIVE cmdInsertionPoint(_, _)
cmdInsertionPoint(ss, i) ==
    IF i < Len(ss) /\ ss[i + 1].id <= 8 THEN cmdInsertionPoint(ss, i + 1) ELSE i

\* out = secs[:i], then start, then secs[i:]
cmdInsertStartSection(ss, st) ==
    LET i == cmdInsertionPoint(ss, 0)
    IN Append(Slice(ss, 0, i), st) \o Slice(ss, i, Len(ss))

RECURSIVE cmdRebuildLoop(_, _, _)
cmdRebuildLoop(o, ss, k) ==
    IF k > Len(ss) THEN o
    ELSE cmdRebuildLoop(
             Append(o, ss[k].id) \o cmdWriteU32(U32(Len(ss[k].body))) \o ss[k].body,
             ss, k + 1)

cmdRebuildModule(header, ss) == cmdRebuildLoop(header, ss, 1)

\* lines 50-67 of main on the bytes read: the stage that fails with its
\* error, or the module built
cmdPipeline(inBytes) ==
    LET e == cmdEnsureMagic(inBytes)
        p == cmdParseSections(Slice(inBytes, 8, Len(inBytes)))
        f == cmdFindInitializeIndex(p.secs)
        ss == cmdInsertStartSection(cmdDropStartSection(p.secs), cmdBuildStartSection(f.idx))
    IN IF e # "" THEN [stage |-> "ensureMagic", err |-> e, out |-> <<>>]
       ELSE IF p.err # "" THEN [stage |-> "parseSections", err |-> p.err, out |-> <<>>]
       ELSE IF f.err # "" THEN [stage |-> "findInitializeIndex", err |-> f.err, out |-> <<>>]
       ELSE [stage |-> "", err |-> "", out |-> cmdRebuildModule(Slice(inBytes, 0, 8), ss)]

\* ------------------------------------------------------------------------
\* C25
\* ------------------------------------------------------------------------
\* the stage of AddStartSection an error comes from
StageOf(e) ==
    IF e \in HeaderErrors THEN "ensureMagic"
    ELSE IF e \in SectionErrors THEN "parseSections"
    ELSE IF e \in ExportErrors \cup {NotFoundError} THEN "findInitializeIndex"
    ELSE ""

\* C25: the standalone tool and the library agree: on every input the
\* tool's sequence ensureMagic, parseSections, findInitializeIndex,
\* dropStartSection, buildStartSection, insertStartSection, rebuildModule and
\* the library's AddStartSection either fail at the same stage (with the same
\* error) or produce the same bytes.
ToolAgreesWithLibrary ==
    pc \in {"added", "failed"} =>
        LET c == cmdPipeline(data)
        IN /\ c.err = err
           /\ c.stage = StageOf(err)
           /\ c.out = out

\* a module the two implementations rewrite: a start section replaced, the
\* new one put between other sections
ToolAgreesWithLibraryWitness ==
    /\ pc = "added"
    /\ m.secs = <<StartSec, InitExportSec, CodeSec>>
    /\ cmdPipeline(data).out = out
    /\ out # data
    /\ OutSecs.secs[1].id = 7 /\ OutSecs.secs[2].id = 8 /\ OutSecs.secs[3].id = 10

\* ------------------------------------------------------------------------
\* One run of the standalone tool next to the file system.  cli.fs gives
\* for each path whether a file exists and its bytes; cli.fs0 is the file
\* system the run started on.  os.WriteFile opens the file with truncation,
\* writes and closes it, and any of the three can fail; os.Rename replaces
\* the target in one step or fails.
\* ------------------------------------------------------------------------
MaxCliSecs == 2

inPath == "in.wasm"
outPath == "out.wasm"

\* variant: the module is written straight to the output path
tmpPathSame(path) == path

\* tmp := path + ".tmp"
tmpPath(path) == path \o ".tmp"

Paths == {inPath, outPath, tmpPath(outPath)}
Absent == [exists |-> FALSE, bytes |-> <<>>]
File(b) == [exists |-> TRUE, bytes |-> b]
\* what the output path and the temporary path may hold before the run
OldFiles == {Absent, File(<<0, 97, 115, 109>>)}

CliInputs ==
    { [hdr |-> GoodHeader, secs |-> ss, tail |-> t] :
        ss \in SeqsUpTo(SecInputs, MaxCliSecs), t \in Tails }
    \cup { [hdr |-> h, secs |-> <<>>, tail |-> <<>>] : h \in BadHeaders }

InitCli ==
    /\ m \in CliInputs
    /\ data = Bytes(m)
    /\ WasmIdle
    /\ codec = NoCodec
    /\ scan = NoScan
    /\ mem = NoMem
    /\ plug = NoPlug
    /\ \E argc \in 1..4, present \in BOOLEAN, o \in OldFiles, t \in OldFiles :
          LET fs == [p \in Paths |->
                        IF p = inPath THEN (IF present THEN File(data) ELSE Absent)
                        ELSE IF p = outPath THEN o ELSE t]
          IN cli = [pc |-> "main", argc |-> argc, fs |-> fs, fs0 |-> fs,
                    read |-> FALSE, inBytes |-> <<>>, secs |-> <<>>,
                    fnIndex |-> U32(0), module |-> <<>>, stage |-> "", exit |-> -1]

\* fail(err): the error goes to stderr and the process exits with status 1
cmdFail(c, stage) == [c EXCEPT !.pc = "exited", !.stage = stage, !.exit = 1]

\* os.Rename(from, to)
Renamed(fs, from, to) ==
    IF from = to THEN fs ELSE [fs EXCEPT ![to] = fs[from], ![from] = Absent]

\* if len(os.Args) != 3 { usage; os.Exit(2) }
CheckArgs ==
    /\ cli.pc = "main"
    /\ cli' = IF cli.argc # 3
              THEN [cli EXCEPT !.pc = "exited", !.stage = "usage", !.exit = 2]
              ELSE [cli EXCEPT !.pc = "ReadFile"]
    /\ UNCHANGED <<wasmVars, codec, scan, mem, plug>>

\* inBytes, err := os.ReadFile(inPath)
ReadInput ==
    /\ cli.pc = "ReadFile"
    /\ \E ok \in BOOLEAN :
          cli' = IF ok /\ cli.fs[inPath].exists
                 THEN [cli EXCEPT !.pc = "ensureMagic", !.read = TRUE,
                                  !.inBytes = cli.fs[inPath].bytes]
                 ELSE cmdFail([cli EXCEPT !.read = TRUE], "ReadFile")
    /\ UNCHANGED <<wasmVars, codec, scan, mem, plug>>

CheckHeader ==
    /\ cli.pc = "ensureMagic"
    /\ cli' = IF cmdEnsureMagic(cli.inBytes) # ""
              THEN cmdFail(cli, "ensureMagic")
              ELSE [cli EXCEPT !.pc = "parseSections"]
    /\ UNCHANGED <<wasmVars, codec, scan, mem, plug>>

ReadSections ==
    /\ cli.pc = "parseSections"
    /\ LET p == cmdParseSections(Slice(cli.inBytes, 8, Len(cli.inBytes)))
       IN cli' = IF p.err # "" THEN cmdFail(cli, "parseSections")
                 ELSE [cli EXCEPT !.pc = "findInitializeIndex", !.secs = p.secs]
    /\ UNCHANGED <<wasmVars, codec, scan, mem, plug>>

LookUpExport ==
    /\ cli.pc = "findInitializeIndex"
    /\ LET f == cmdFindInitializeIndex(cli.secs)
       IN cli' = IF f.err # "" THEN cmdFail(cli, "findInitializeIndex")
                 ELSE [cli EXCEPT !.pc = "rebuildModule", !.fnIndex = f.idx]
    /\ UNCHANGED <<wasmVars, codec, scan, mem, plug>>

\* dropStartSection, buildStartSection, insertStartSection, rebuildModule
BuildModule ==
    /\ cli.pc = "rebuildModule"
    /\ LET ss == cmdInsertStartSection(cmdDropStartSection(cli.secs),
                                       cmdBuildStartSection(cli.fnIndex))
       IN cli' = [cli EXCEPT !.pc = "WriteFile", !.secs = ss,
                             !.module = cmdRebuildModule(Slice(cli.inBytes, 0, 8), ss)]
    /\ UNCHANGED <<wasmVars, codec, scan, mem, plug>>

\* atomicWrite, os.WriteFile(tmp, data, 0o644): the file is opened, created
\* or emptied
OpenTmp ==
    /\ cli.pc = "WriteFile"
    /\ \E ok \in BOOLEAN :
          cli' = IF ok
                 THEN [cli EXCEPT !.pc = "writing", !.fs[tmpPath(outPath)] = File(<<>>)]
                 ELSE cmdFail(cli, "atomicWrite")
    /\ UNCHANGED <<wasmVars, codec, scan, mem, plug>>

\* atomicWrite, os.WriteFile: the first k bytes reach the file; the call
\* succeeds when all did and the file closes
WriteTmp ==
    /\ cli.pc = "writing"
    /\ \E k \in 0..Len(cli.module), ok \in BOOLEAN :
          LET c == [cli EXCEPT !.fs[tmpPath(outPath)] = File(SubSeq(cli.module, 1, k))]
          IN cli' = IF k = Len(cli.module) /\ ok
                    THEN [c EXCEPT !.pc = "Rename"]
                    ELSE cmdFail(c, "atomicWrite")
    /\ UNCHANGED <<wasmVars, codec, scan, mem, plug>>

\* atomicWrite, os.Rename(tmp, path); then main prints and returns
RenameTmp ==
    /\ cli.pc = "Rename"
    /\ \E ok \in BOOLEAN :
          cli' = IF ok
                 THEN [cli EXCEPT !.pc = "exited", !.exit = 0,
                                  !.fs = Renamed(cli.fs, tmpPath(outPath), outPath)]
                 ELSE cmdFail(cli, "atomicWrite")
    /\ UNCHANGED <<wasmVars, codec, scan, mem, plug>>

NextCli ==
    \/ CheckArgs
    \/ ReadInput
    \/ CheckHeader
    \/ ReadSections
    \/ LookUpExport
    \/ BuildModule
    \/ OpenTmp
    \/ WriteTmp
    \/ RenameTmp

SpecCli == InitCli /\ [][NextCli]_vars

\* ------------------------------------------------------------------------
\* C24
\* ------------------------------------------------------------------------
\* by construction of the input: the export lookup finds a function index
LookupSucceeds == Deciding # {} /\ m.secs[Min(Deciding)].decodes
\* by construction: reading, header validation, section parsing or export
\* lookup fails on the input file (or the read itself failed)
InputFails ==
    \/ ~cli.fs0[inPath].exists
    \/ cli.stage = "ReadFile"
    \/ ~ValidHeader
    \/ ~Parseable
    \/ ~LookupSucceeds
EarlyStages == {"ReadFile", "ensureMagic", "parseSections", "findInitializeIndex"}

CliSafe ==
    /\ cli.argc # 3 =>
           /\ cli.pc \in {"main", "exited"}
           /\ cli.pc = "exited" => cli.exit = 2
           /\ ~cli.read
           /\ cli.fs = cli.fs0
    /\ cli.argc = 3 => cli.exit # 2
    /\ (cli.argc = 3 /\ InputFails) =>
           /\ cli.fs = cli.fs0
           /\ cli.exit \in {-1, 1}
           /\ cli.pc = "exited" => cli.stage \in EarlyStages
    /\ cli.exit = 0 => cli.fs[outPath] = File(cli.module)

\* C24: in the standalone tool the output path is never created or modified
\* when reading, header validation, section parsing or export lookup fails
\* (the process exits with a non-zero status and nothing was written); a
\* wrong argument count exits with status 2 before any file is read; and the
\* output path only ever changes by the rename of <out>.tmp, after the
\* complete module was written to it, so that it never holds a partly
\* written module.
OutputOnlyByRename ==
    [][/\ CliSafe'
       /\ cli'.fs[outPath] # cli.fs[outPath] =>
              /\ cli.pc = "Rename"
              /\ cli.fs[tmpPath(outPath)] = File(cli.module)
              /\ cli.module = AddStartSection(data).out
              /\ cli'.fs[outPath] = File(cli.module)
              /\ cli'.exit = 0]_vars

\* a run that replaced an existing output file with the complete module
OutputOnlyByRenameWitness ==
    /\ cli.pc = "exited" /\ cli.exit = 0
    /\ cli.fs0[outPath].exists /\ cli.fs0[tmpPath(outPath)].exists
    /\ cli.fs[outPath] = File(cli.module)
    /\ cli.fs[outPath] # cli.fs0[outPath]
    /\ ~cli.fs[tmpPath(outPath)].exists
    /\ Len(m.secs) = 2

\* ------------------------------------------------------------------------
\* C26
\* ------------------------------------------------------------------------
\* C26: for every buffer b of at least 8 bytes, StripStartSection(b) is
\* rebuildModule(b[:8], dropStartSection(parseSections(b[8:]))) when
\* parseSections succeeds on b[8:], and b itself when it fails: the stripper
\* and the reader accept the same section streams.
StripIsParseDropRebuild ==
    (pc = "stripped" /\ Len(data) >= 8) =>
        LET p == parseSections(Slice(data, 8, Len(data)))
        IN IF p.err = ""
           THEN out = rebuildModule(Slice(data, 0, 8), dropStartSection(p.secs))
           ELSE out = data

\* a start section under a header of the wrong version
StripIsParseDropRebuildWitness ==
    /\ pc = "stripped"
    /\ m.hdr = <<0, 97, 115, 109, 2, 0, 0, 0>>
    /\ m.secs = <<StartSec>> /\ m.tail = <<>>
    /\ out = rebuildModule(m.hdr, <<>>)

\* ------------------------------------------------------------------------
\* C27
\* ------------------------------------------------------------------------
\* C27: readU32 does not reject an over-long value: on five bytes of which
\* the first four have the continuation bit and the fifth has not and is
\* above 0x0F it returns 5 bytes consumed and the encoded integer modulo
\* 2^32; and it accepts encodings that are not the shortest (0x80 0x00 for
\* 0), so that distinct byte strings decode to the same value.
OverlongAccepted ==
    codec.pc = "decoded" =>
        LET b == codec.bytes
        IN /\ (/\ Len(b) >= 5
               /\ \A i \in 1..4 : b[i] >= 128
               /\ b[5] < 128 /\ b[5] > 15) =>
                  /\ codec.res.n = 5
                  /\ codec.res.val =
                        [lo |-> (b[1] - 128) + (b[2] - 128) * 128
                                + (b[3] - 128) * 16384 + (b[4] - 128) * 2097152,
                         hi |-> b[5] % 16]
           /\ (Len(b) >= 2 /\ b[1] = 128 /\ b[2] = 0) =>
                  codec.res = [val |-> U32(0), n |-> 2]
           /\ (Len(b) >= 1 /\ b[1] = 0) => codec.res = [val |-> U32(0), n |-> 1]

OverlongAcceptedWitness ==
    /\ codec.pc = "decoded"
    /\ codec.bytes = <<255, 255, 255, 255, 127>>
    /\ codec.res = [val |-> [lo |-> 268435455, hi |-> 15], n |-> 5]

\* ------------------------------------------------------------------------
\* C28
\* ------------------------------------------------------------------------
\* C28: parseSections never returns "truncated section id": each of its
\* failures is "invalid section size" or "section exceeds file", and a buffer
\* that ends right after a section id byte is reported as an invalid section
\* size.
NoTruncatedIdError ==
    /\ err # "truncated section id"
    /\ res2.err # "truncated section id"
    /\ (pc = "failed" /\ ValidHeader /\ ~Parseable) => err \in SectionErrors
    /\ (/\ ParseDone
        /\ \A i \in 1..Len(m.secs) : m.secs[i].form = "ok"
        /\ m.tail = <<1>>) =>
           pc = "failed" /\ err = "invalid section size"

NoTruncatedIdErrorWitness ==
    /\ pc = "failed"
    /\ ValidHeader
    /\ m.secs = <<InitExportSec, CodeSec>>
    /\ m.tail = <<1>>
    /\ data[Len(data)] = 1
    /\ err = "invalid section size"

\* ------------------------------------------------------------------------
\* C29
\* ------------------------------------------------------------------------
\* C29: StripStartSection never looks at the header: on a buffer of at
\* least 8 bytes whose rest is a parseable section stream it copies the
\* first 8 bytes unchanged and removes the records of id 8 even when the
\* magic or the version is wrong, where AddStartSection returns a header
\* error; and on a valid header followed by a malformed section stream
\* AddStartSection returns an error where StripStartSection returns its
\* input unchanged.
StripIgnoresHeader ==
    /\ (pc = "stripped" /\ Len(m.hdr) = 8 /\ Parseable) =>
           /\ Slice(out, 0, 8) = m.hdr
           /\ OutSecs = [secs |-> KeptRecords, err |-> ""]
           /\ ~ValidHeader =>
                  LET a == AddStartSection(data)
                  IN a.err \in HeaderErrors /\ a.out = <<>>
    /\ (pc = "stripped" /\ ValidHeader /\ ~Parseable) =>
           /\ out = data
           /\ AddStartSection(data).err \in SectionErrors

StripIgnoresHeaderWitness ==
    /\ pc = "stripped"
    /\ m.hdr = <<0, 97, 115, 110, 1, 0, 0, 0>>
    /\ m.secs = <<StartSec>> /\ m.tail = <<>>
    /\ out = m.hdr
    /\ AddStartSection(data).err = "bad wasm magic"

\* ------------------------------------------------------------------------
\* The tffmt plugin (cmd/tffmt): the shared buffer's two size variables
\* under the exported calls.  The content of the buffer, the JSON texts and
\* the formatter are left out: a text is its length, and the lengths of the
\* embedded texts, of the formatter's output and of its error message are
\* any of the sampled lengths.  Lengths and sizes are below 2^31, where
\* toUint32 changes nothing.
\* ------------------------------------------------------------------------
SharedBufferSize == 1048576
FormatResultNoChange == 0
FormatResultChanged == 1
FormatResultError == 2
\* len("file too large for formatting")
TooLargeMsgLen == 29
\* len of the JSON text of get_config_file_matching
FileMatchingLen == 81
\* len("[]"), len("{}")
EmptyJsonLen == 2

TextLens == {0, 1, 2, TooLargeMsgLen, SharedBufferSize - 1, SharedBufferSize,
             SharedBufferSize + 1}
SizeArgs == TextLens \cup {2147483647}

\* the state after the module is instantiated
InitTffmt ==
    /\ m = [hdr |-> GoodHeader, secs |-> <<>>, tail |-> <<>>]
    /\ data = GoodHeader
    /\ WasmIdle
    /\ codec = NoCodec
    /\ scan = NoScan
    /\ mem = NoMem
    /\ cli = NoCli
    /\ plug = [activeSize |-> 0, fileContentSize |-> 0, initialized |-> FALSE,
               last |-> "", arg |-> 0, ret |-> 0, branch |-> ""]

tffmtOther == <<wasmVars, codec, scan, mem, cli>>

\* the call that has just returned: its name and its result
Returned(p, name, ret) == [p EXCEPT !.initialized = TRUE, !.last = name, !.ret = ret]

\* putShared(b) for a non-nil b of n bytes (no call site passes nil): the
\* text is cut to the buffer, copied, and its length becomes activeSize
putShared(p, name, n) ==
    LET k == IF n > SharedBufferSize THEN SharedBufferSize ELSE n
    IN Returned([p EXCEPT !.activeSize = k], name, k)

\* variant: the size is taken as given
clearSizeUnclamped(size) == size

\* if size > dprint.SharedBufferSize { size = dprint.SharedBufferSize }
clearSize(size) == IF size > SharedBufferSize THEN SharedBufferSize ELSE size

clear_shared_bytes ==
    /\ \E size \in SizeArgs :
          plug' = Returned([plug EXCEPT !.activeSize = clearSize(size),
                                        !.fileContentSize = clearSize(size),
                                        !.arg = size],
                           "clear_shared_bytes", 0)
    /\ UNCHANGED tffmtOther

get_plugin_info ==
    /\ \E n \in TextLens \ {0} : plug' = putShared(plug, "get_plugin_info", n)
    /\ UNCHANGED tffmtOther

get_license_text ==
    /\ \E n \in TextLens : plug' = putShared(plug, "get_license_text", n)
    /\ UNCHANGED tffmtOther

get_config_file_matching ==
    /\ plug' = putShared(plug, "get_config_file_matching", FileMatchingLen)
    /\ UNCHANGED tffmtOther

get_config_diagnostics ==
    /\ plug' = putShared(plug, "get_config_diagnostics", EmptyJsonLen)
    /\ UNCHANGED tffmtOther

get_resolved_config ==
    /\ plug' = putShared(plug, "get_resolved_config", EmptyJsonLen)
    /\ UNCHANGED tffmtOther

\* copies shared[:activeSize] and parses it; the sizes stay
register_config ==
    /\ plug' = Returned(plug, "register_config", 0)
    /\ UNCHANGED tffmtOther

\* format: the outcome of formatHCL is an error with a message of n bytes,
\* or a text of n bytes that is the input (same) or is not
format ==
    /\ LET contentSize == IF plug.activeSize > plug.fileContentSize
                          THEN plug.activeSize ELSE plug.fileContentSize
       IN IF contentSize = 0
          THEN plug' = Returned([plug EXCEPT !.branch = "no content"],
                                "format", FormatResultNoChange)
          ELSE IF contentSize > SharedBufferSize
          THEN plug' = Returned([plug EXCEPT !.branch = "content larger than buffer"],
                                "format", FormatResultNoChange)
          ELSE \E failed \in BOOLEAN, n \in TextLens \cup {contentSize}, same \in BOOLEAN :
                 plug' =
                   IF failed
                   THEN Returned([plug EXCEPT
                                    !.activeSize = IF n > SharedBufferSize
                                                   THEN SharedBufferSize ELSE n,
                                    !.branch = "error"],
                                 "format", FormatResultError)
                   ELSE IF n = contentSize /\ same
                   THEN Returned([plug EXCEPT !.branch = "unchanged"],
                                 "format", FormatResultNoChange)
                   ELSE IF n > SharedBufferSize
                   THEN Returned([plug EXCEPT !.activeSize = TooLargeMsgLen,
                                              !.branch = "file too large"],
                                 "format", FormatResultError)
                   ELSE Returned([plug EXCEPT !.activeSize = n, !.branch = "changed"],
                                 "format", FormatResultChanged)
    /\ UNCHANGED tffmtOther

get_formatted_text ==
    /\ plug' = Returned(plug, "get_formatted_text", plug.activeSize)
    /\ UNCHANGED tffmtOther

get_error_text ==
    /\ plug' = Returned(plug, "get_error_text", plug.activeSize)
    /\ UNCHANGED tffmtOther

NextTffmt ==
    \/ clear_shared_bytes
    \/ get_plugin_info
    \/ get_license_text
    \/ get_config_file_matching
    \/ get_config_diagnostics
    \/ get_resolved_config
    \/ register_config
    \/ format
    \/ get_formatted_text
    \/ get_error_text

SpecTffmt == InitTffmt /\ [][NextTffmt]_vars

\* ------------------------------------------------------------------------
\* C30
\* ------------------------------------------------------------------------
\* C30: in the tffmt plugin, after any sequence of the exported calls
\* (clear_shared_bytes with any size included) activeSize and
\* fileContentSize are at most the size of the shared buffer, 1 MiB: the
\* sizes get_formatted_text and get_error_text return lie within the buffer,
\* and format never takes its branch for a content larger than the buffer.
SizesWithinBuffer ==
    /\ plug.activeSize <= 1048576
    /\ plug.fileContentSize <= 1048576
    /\ plug.last \in {"get_formatted_text", "get_error_text"} => plug.ret <= 1048576
    /\ plug.branch # "content larger than buffer"

\* a size above the buffer was asked for, the content was formatted and the
\* length of the result fetched
SizesWithinBufferWitness ==
    /\ plug.arg > 1048576
    /\ plug.fileContentSize = 1048576
    /\ plug.branch = "changed"
    /\ plug.last = "get_formatted_text"
    /\ plug.ret = 1048575
====
